---- MODULE Spec2Model ----
(***************************************************************************)
(* Model of the data3d importer (import_data3d.py, material_utils.py).     *)
(*                                                                         *)
(* Python values are modelled as records [t, e]:                           *)
(*   number  n          [t |-> "num",   e |-> <<n>>]  (bool is 0/1)        *)
(*   list    [a, b]     [t |-> "list",  e |-> <<a, b>>]                    *)
(*   tuple   (a, b)     [t |-> "tuple", e |-> <<a, b>>]                    *)
(* A raw material (a dict) is a sequence of <<key, value>> pairs with      *)
(* distinct keys, in the dict's iteration order.                           *)
(*                                                                         *)
(* Specifications:                                                         *)
(*   SpecHash   get_al_material_hash on two raw materials                  *)
(*   SpecDedup  import_data3d_materials, run twice                         *)
(*   Spec       import_scene on node lists that are forests                *)
(*   SpecGraph  import_scene on node lists with unchecked parents          *)
(*   SpecMesh   create_mesh on one mesh                                    *)
(*   SpecMaterial  create_blender_material on one material                 *)
(***************************************************************************)
EXTENDS Integers, Sequences, FiniteSets, TLC

VARIABLES
    data3d_objects,        \* the deserialized node list (input)
    import_metadata,       \* kwargs['import_al_metadata']
    import_materials,      \* kwargs['import_materials']
    pc,                    \* position in the program
    al_hashed_materials,   \* import_data3d_materials: hash -> reduced material
    material_hash_map,     \* import_data3d_materials: map of the node in work
    ni,                    \* index of the node in work
    ki,                    \* index of the material key in work
    mat_hash_map,          \* per node: data3d_object.mat_hash_map
    bl_materials,          \* str(hash) -> Material
    prev,                  \* result of an earlier run of the deduplication
    matA, matB,            \* get_al_material_hash: two raw materials
    hashA, hashB,          \* get_al_material_hash: their results
    import_hierarchy,      \* kwargs['import_hierarchy']
    mi,                    \* import_scene: index of the mesh in work
    bl_meshes,             \* import_scene: objects of the node in work
    bl_emission_meshes,    \* import_scene: emissive objects of the node in work
    D_objects,             \* D.objects: every object created, by id
    D_materials,           \* D.materials: names of the material datablocks
    bl_object,             \* per node: data3d_object.bl_object
    bl_emission_object,    \* per node: data3d_object.bl_emission_object
    bl_root_objects,       \* import_scene: the objects of the root nodes
    error,                 \* the exception that ended import_scene, if any
    data,                  \* create_mesh: the mesh data (input)
    me,                    \* create_mesh: its locals and the mesh it builds
    fi,                    \* create_mesh: index of the face in work
    al_mat_arg,            \* create_blender_material: its argument al_mat (input)
    bl_mat,                \* create_blender_material: the Blender material
    ref_maps               \* create_blender_material: the reference maps

vars == <<data3d_objects, import_metadata, import_materials, pc, al_hashed_materials,
          material_hash_map, ni, ki, mat_hash_map, bl_materials, prev,
          matA, matB, hashA, hashB, import_hierarchy, mi, bl_meshes,
          bl_emission_meshes, D_objects, D_materials, bl_object,
          bl_emission_object, bl_root_objects, error, data, me, fi,
          al_mat_arg, bl_mat, ref_maps>>

hashVars == <<matA, matB, hashA, hashB>>

sceneVars == <<import_hierarchy, mi, bl_meshes, bl_emission_meshes, D_objects,
               D_materials, bl_object, bl_emission_object, bl_root_objects, error>>

meshVars == <<data, me, fi>>

blenderVars == <<al_mat_arg, bl_mat, ref_maps>>

\* what create_blender_material leaves alone
notBlenderVars == <<data3d_objects, import_metadata, import_materials,
                    al_hashed_materials, material_hash_map, ni, ki, mat_hash_map,
                    bl_materials, prev, matA, matB, hashA, hashB, import_hierarchy,
                    mi, bl_meshes, bl_emission_meshes, D_objects, D_materials,
                    bl_object, bl_emission_object, bl_root_objects, error,
                    data, me, fi>>

\* what create_mesh leaves alone
notMeshVars == <<data3d_objects, import_metadata, import_materials,
                 al_hashed_materials, material_hash_map, ni, ki, mat_hash_map,
                 bl_materials, prev, matA, matB, hashA, hashB, import_hierarchy,
                 mi, bl_meshes, bl_emission_meshes, D_objects, D_materials,
                 bl_object, bl_emission_object, bl_root_objects,
                 al_mat_arg, bl_mat, ref_maps>>

----------------------------------------------------------------------------
(* Bounds *)

MaxNodes == 2
MaterialsBound == 3
MaxPairs == 2

----------------------------------------------------------------------------
(* Python values *)

Num(n) == [t |-> "num", e |-> <<n>>]
List(s) == [t |-> "list", e |-> s]
Tuple(s) == [t |-> "tuple", e |-> s]

Range(s) == {s[i] : i \in DOMAIN s}

EmptyDict == [k \in {} |-> 0]

\* key in al_material
HasKey(al_material, key) == \E i \in DOMAIN al_material : al_material[i][1] = key

\* al_material[key]
GetKey(al_material, key) ==
    al_material[CHOOSE i \in DOMAIN al_material : al_material[i][1] = key][2]

\* hash(n) of a Python number: the value itself (for |n| < 2^61 - 1), except
\* that -1 is the error code of the C hash slot and is replaced by -2, so that
\* hash(-1) = hash(-2) = -2.
py_hash_num(n) == IF n = -1 THEN -2 ELSE n

\* hash(value): a tuple's hash is computed from its length and the hashes of
\* its elements only.  The mixing of the element hashes is kept symbolic (the
\* sequence of the element hashes): two tuples have one hash exactly when
\* their elements have the same hashes, which leaves out the chance
\* collisions of the 64-bit mixing and keeps those of the element hashes.
py_hash(value) ==
    IF value.t = "tuple"
    THEN [t |-> "tuple", e |-> [i \in DOMAIN value.e |-> py_hash_num(value.e[i])]]
    ELSE [t |-> "num", e |-> <<py_hash_num(value.e[1])>>]

\* hash(frozenset(d.items())): computed from the hashes of the (key, value)
\* tuples only, in no order; the hash of a (key, value) tuple is computed from
\* the hash of the key (a string, kept as it is) and the hash of the value.
\* Kept symbolic as the set of the items' hashes.
py_hash_items(d) == {<<k, py_hash(d[k])>> : k \in DOMAIN d}

\* str(h): the decimal string of the hash, one string per hash
py_str(h) == [str |-> h]

----------------------------------------------------------------------------
(* get_al_material_hash *)

map_suffix_source == "_source"
map_suffix_preview == "_preview"

base_compare_keys ==
    <<"col_diff", "col_spec", "coef_spec", "coef_emit", "opacity", "uv_scale",
      "map_diff", "map_diff" \o map_suffix_source, "map_diff" \o map_suffix_preview,
      "map_spec", "map_spec" \o map_suffix_source, "map_spec" \o map_suffix_preview,
      "map_norm", "map_norm" \o map_suffix_source, "map_norm" \o map_suffix_preview,
      "map_alpha", "map_alpha" \o map_suffix_source, "map_alpha" \o map_suffix_preview,
      "map_light", "map_light" \o map_suffix_source, "map_light" \o map_suffix_preview,
      "cast_shadows", "receive_shadows">>

metadata_keys == <<"add_lightmap", "use_in_calc", "hide_after_calc">>

\* faulty variant: the internal-use keys are compared in either mode
compare_keys_always(metadata) == base_compare_keys \o metadata_keys

compare_keys(metadata) ==
    IF metadata THEN base_compare_keys \o metadata_keys ELSE base_compare_keys

\* tuple(value) if isinstance(value, list) else value
hashable(value) == IF value.t = "list" THEN Tuple(value.e) ELSE value

hash_nodes(al_material, metadata) ==
    [key \in {k \in Range(compare_keys(metadata)) : HasKey(al_material, k)} |->
        hashable(GetKey(al_material, key))]

\* returns <<al_mat_hash, hash_nodes>>
get_al_material_hash(al_material, metadata) ==
    <<py_hash_items(hash_nodes(al_material, metadata)),
      hash_nodes(al_material, metadata)>>

----------------------------------------------------------------------------
(* Inputs *)

\* values a material field can take: numbers (flags are the booleans 0/1),
\* colours as lists or tuples
FieldValues(key) ==
    CASE key \in {"add_lightmap", "cast_shadows"} -> {Num(0), Num(1)}
      [] key = "col_diff" -> {List(<<1, 0>>), Tuple(<<1, 0>>), List(<<-1, 0>>)}
      [] OTHER -> {Num(-2), Num(-1), Num(2)}

\* the field names of the raw materials drawn; "name" is not a compare key
FieldKeys == {"col_diff", "opacity", "add_lightmap", "name"}

FieldPairs == {<<k, v>> : k \in FieldKeys, v \in UNION {FieldValues(k2) : k2 \in FieldKeys}}

TypedPairs == {p \in FieldPairs : p[2] \in FieldValues(p[1])}

DistinctKeys(m) == \A i, j \in DOMAIN m : i # j => m[i][1] # m[j][1]

RawMaterials ==
    {m \in UNION {[1..n -> TypedPairs] : n \in 0..MaxPairs} : DistinctKeys(m)}

----------------------------------------------------------------------------
(* Specification of get_al_material_hash on two raw materials *)

NoHash == <<>>

NoError == ""

\* the state of create_mesh when it is not in work
MeshIdle ==
    /\ data = <<>>
    /\ me = <<>>
    /\ fi = 1

\* the state of create_blender_material when it is not in work
BlenderIdle ==
    /\ al_mat_arg = EmptyDict
    /\ bl_mat = <<>>
    /\ ref_maps = EmptyDict

\* the state of import_scene before it has started
SceneInit ==
    /\ mi = 1
    /\ bl_meshes = <<>>
    /\ bl_emission_meshes = <<>>
    /\ D_objects = <<>>
    /\ D_materials = {}
    /\ bl_object = EmptyDict
    /\ bl_emission_object = EmptyDict
    /\ bl_root_objects = <<>>
    /\ error = NoError

InitHash ==
    /\ matA \in RawMaterials
    /\ matB \in RawMaterials
    /\ import_metadata \in BOOLEAN
    /\ import_materials = TRUE
    /\ hashA = NoHash
    /\ hashB = NoHash
    /\ pc = "hash"
    /\ data3d_objects = <<>>
    /\ al_hashed_materials = EmptyDict
    /\ material_hash_map = EmptyDict
    /\ ni = 1
    /\ ki = 1
    /\ mat_hash_map = EmptyDict
    /\ bl_materials = EmptyDict
    /\ prev = <<>>
    /\ import_hierarchy = TRUE
    /\ SceneInit
    /\ MeshIdle
    /\ BlenderIdle

HashBoth ==
    /\ pc = "hash"
    /\ hashA' = get_al_material_hash(matA, import_metadata)
    /\ hashB' = get_al_material_hash(matB, import_metadata)
    /\ pc' = "hashed"
    /\ UNCHANGED <<data3d_objects, import_metadata, import_materials,
                   al_hashed_materials, material_hash_map, ni, ki,
                   mat_hash_map, bl_materials, prev, matA, matB>>
    /\ UNCHANGED <<sceneVars, meshVars, blenderVars>>

NextHash == HashBoth

SpecHash == InitHash /\ [][NextHash]_vars

----------------------------------------------------------------------------
(* import_data3d_materials *)

\* d[k] = v on a dict
DictSet(d, k, v) == [x \in DOMAIN d \cup {k} |-> IF x = k THEN v ELSE d[x]]

\* faulty variant: the entry of a hash is overwritten by every later material
add_hashed_material_overwrite(table, al_mat_hash, al_mat) ==
    DictSet(table, al_mat_hash, al_mat)

\* if al_mat_hash not in al_hashed_materials: al_hashed_materials[al_mat_hash] = al_mat
add_hashed_material(table, al_mat_hash, al_mat) ==
    IF al_mat_hash \notin DOMAIN table THEN DictSet(table, al_mat_hash, al_mat) ELSE table

\* Material(key, al_material, ...): the fields the importer reads back
Material(key, al_material) == [al_material_hash |-> key, al_material |-> al_material]

\* faulty variant: the node list is an iterator that the first run has used up
DedupBegin_exhausted ==
    /\ pc = "start"
    /\ import_materials
    /\ al_hashed_materials' = EmptyDict
    /\ material_hash_map' = EmptyDict
    /\ ki' = 1
    /\ pc' = "dedup"
    /\ UNCHANGED <<data3d_objects, import_metadata, import_materials, ni,
                   mat_hash_map, bl_materials, prev>>
    /\ UNCHANGED <<hashVars, sceneVars, meshVars, blenderVars>>

DedupBegin ==
    /\ pc = "start"
    /\ import_materials
    /\ al_hashed_materials' = EmptyDict
    /\ material_hash_map' = EmptyDict
    /\ ni' = 1
    /\ ki' = 1
    /\ pc' = "dedup"
    /\ UNCHANGED <<data3d_objects, import_metadata, import_materials,
                   mat_hash_map, bl_materials, prev>>
    /\ UNCHANGED <<hashVars, sceneVars, meshVars, blenderVars>>

\* one pass of the loop over the keys of a node's materials
DedupKey ==
    /\ pc = "dedup"
    /\ ni <= Len(data3d_objects)
    /\ ki <= Len(data3d_objects[ni].materials)
    /\ LET entry == data3d_objects[ni].materials[ki]
           res == get_al_material_hash(entry[2], import_metadata)
       IN /\ material_hash_map' = DictSet(material_hash_map, entry[1], py_str(res[1]))
          /\ al_hashed_materials' = add_hashed_material(al_hashed_materials, res[1], res[2])
    /\ ki' = ki + 1
    /\ UNCHANGED <<data3d_objects, import_metadata, import_materials, pc, ni,
                   mat_hash_map, bl_materials, prev>>
    /\ UNCHANGED <<hashVars, sceneVars, meshVars, blenderVars>>

\* faulty variant: material_hash_map is created once, before the loop over the nodes
DedupNodeEnd_keep ==
    /\ pc = "dedup"
    /\ ni <= Len(data3d_objects)
    /\ ki > Len(data3d_objects[ni].materials)
    /\ mat_hash_map' = DictSet(mat_hash_map, data3d_objects[ni].node_id, material_hash_map)
    /\ ni' = ni + 1
    /\ ki' = 1
    /\ UNCHANGED <<data3d_objects, import_metadata, import_materials, pc,
                   al_hashed_materials, material_hash_map, bl_materials, prev>>
    /\ UNCHANGED <<hashVars, sceneVars, meshVars, blenderVars>>

\* data3d_object.mat_hash_map = material_hash_map
DedupNodeEnd ==
    /\ pc = "dedup"
    /\ ni <= Len(data3d_objects)
    /\ ki > Len(data3d_objects[ni].materials)
    /\ mat_hash_map' = DictSet(mat_hash_map, data3d_objects[ni].node_id, material_hash_map)
    /\ material_hash_map' = EmptyDict
    /\ ni' = ni + 1
    /\ ki' = 1
    /\ UNCHANGED <<data3d_objects, import_metadata, import_materials, pc,
                   al_hashed_materials, bl_materials, prev>>
    /\ UNCHANGED <<hashVars, sceneVars, meshVars, blenderVars>>

\* the Blender materials, keyed by str(hash)
DedupCreate ==
    /\ pc = "dedup"
    /\ ni > Len(data3d_objects)
    /\ bl_materials' = [s \in {py_str(h) : h \in DOMAIN al_hashed_materials} |->
                           Material(s, al_hashed_materials[s.str])]
    /\ pc' = "materials_done"
    /\ UNCHANGED <<data3d_objects, import_metadata, import_materials,
                   al_hashed_materials, material_hash_map, ni, ki,
                   mat_hash_map, prev>>
    /\ UNCHANGED <<hashVars, sceneVars, meshVars, blenderVars>>

----------------------------------------------------------------------------
(* Specification of the deduplication, run once and then a second time on   *)
(* the same node list, on a reordering of it, or in the other mode          *)

LocalKeys == {"a", "b"}

DedupMaterials ==
    { << <<"opacity", Num(-1)>> >>,
      << <<"opacity", Num(-2)>> >>,
      << <<"opacity", Num(-1)>>, <<"add_lightmap", Num(1)>> >> }

NodeMaterials(pool) ==
    {m \in UNION {[1..n -> LocalKeys \X pool] : n \in 0..Cardinality(LocalKeys)} :
        DistinctKeys(m)}

RECURSIVE SumLen(_)
SumLen(s) == IF s = <<>> THEN 0 ELSE Len(Head(s)) + SumLen(Tail(s))

MaterialLists(pool) ==
    {ms \in UNION {[1..n -> NodeMaterials(pool)] : n \in 0..MaxNodes} :
        SumLen(ms) <= MaterialsBound}

Swap(s, i, j) ==
    [x \in DOMAIN s |-> IF x = i THEN s[j] ELSE IF x = j THEN s[i] ELSE s[x]]

InitDedup ==
    /\ \E ms \in MaterialLists(DedupMaterials) :
          data3d_objects = [i \in DOMAIN ms |->
              [node_id |-> i, materials |-> ms[i], meshes |-> <<>>, parent |-> 0]]
    /\ import_metadata \in BOOLEAN
    /\ import_materials = TRUE
    /\ pc = "start"
    /\ al_hashed_materials = EmptyDict
    /\ material_hash_map = EmptyDict
    /\ ni = 1
    /\ ki = 1
    /\ mat_hash_map = EmptyDict
    /\ bl_materials = EmptyDict
    /\ prev = <<>>
    /\ matA = <<>>
    /\ matB = <<>>
    /\ hashA = NoHash
    /\ hashB = NoHash
    /\ import_hierarchy = TRUE
    /\ SceneInit
    /\ MeshIdle
    /\ BlenderIdle

Result(how) ==
    [how |-> how, data3d_objects |-> data3d_objects, import_metadata |-> import_metadata,
     bl_materials |-> bl_materials, mat_hash_map |-> mat_hash_map]

Rerun(how, objects, metadata) ==
    /\ pc = "materials_done"
    /\ prev = <<>>
    /\ prev' = <<Result(how)>>
    /\ data3d_objects' = objects
    /\ import_metadata' = metadata
    /\ pc' = "start"
    /\ UNCHANGED <<import_materials, al_hashed_materials, material_hash_map,
                   ni, ki, mat_hash_map, bl_materials>>
    /\ UNCHANGED <<hashVars, sceneVars, meshVars, blenderVars>>

RerunSame == Rerun("same", data3d_objects, import_metadata)

RerunMode == Rerun("mode", data3d_objects, ~import_metadata)

RerunSwapNodes ==
    \E i, j \in DOMAIN data3d_objects :
        /\ i < j
        /\ Rerun("order", Swap(data3d_objects, i, j), import_metadata)

RerunSwapKeys ==
    \E n \in DOMAIN data3d_objects :
        \E i, j \in DOMAIN data3d_objects[n].materials :
            /\ i < j
            /\ Rerun("order",
                     [data3d_objects EXCEPT ![n].materials = Swap(@, i, j)],
                     import_metadata)

RerunSwapPairs ==
    \E n \in DOMAIN data3d_objects :
        \E k \in DOMAIN data3d_objects[n].materials :
            \E i, j \in DOMAIN data3d_objects[n].materials[k][2] :
                /\ i < j
                /\ Rerun("order",
                         [data3d_objects EXCEPT ![n].materials[k][2] = Swap(@, i, j)],
                         import_metadata)

NextDedup ==
    \/ DedupBegin
    \/ DedupKey
    \/ DedupNodeEnd
    \/ DedupCreate
    \/ RerunSame
    \/ RerunMode
    \/ RerunSwapNodes
    \/ RerunSwapKeys
    \/ RerunSwapPairs

SpecDedup == InitDedup /\ [][NextDedup]_vars

----------------------------------------------------------------------------
(* What the claims say, stated without the importer's own operators *)

KeysOf(m) == {m[i][1] : i \in DOMAIN m}

\* the comparison-relevant keys present in a raw material
PresentRelevant(m, metadata) ==
    KeysOf(m) \cap (Range(base_compare_keys) \cup
                    (IF metadata THEN Range(metadata_keys) ELSE {}))

\* equal values; a list equals the tuple of its elements
SameValue(v, w) == v.e = w.e /\ ((v.t = "num") <=> (w.t = "num"))

\* A and B have the same relevant keys present, with the same values
Agree(A, B, metadata) ==
    /\ PresentRelevant(A, metadata) = PresentRelevant(B, metadata)
    /\ \A k \in PresentRelevant(A, metadata) : SameValue(GetKey(A, k), GetKey(B, k))

\* the reduced material: the relevant keys present, lists as tuples
Reduced(m, metadata) ==
    [k \in PresentRelevant(m, metadata) |->
        IF GetKey(m, k).t = "num" THEN GetKey(m, k) ELSE Tuple(GetKey(m, k).e)]

\* the (node, key) places of the node list's materials, in processing order
Entries(objects) ==
    {e \in (DOMAIN objects) \X (1..MaterialsBound) : e[2] \in DOMAIN objects[e[1]].materials}

RawOf(objects, e) == objects[e[1]].materials[e[2]][2]

\* the hash string that a run's mat_hash_maps give to a place
HashOf(objects, maps, e) == maps[objects[e[1]].node_id][objects[e[1]].materials[e[2]][1]]

Before(e1, e2) == e1[1] < e2[1] \/ (e1[1] = e2[1] /\ e1[2] < e2[2])

Processed == {e \in Entries(data3d_objects) : Before(e, <<ni, ki>>)}

MaterialsDone == pc = "materials_done"

----------------------------------------------------------------------------
(* C1 .. C7: the material deduplication *)

\* C1: after import_data3d_materials, two raw materials that agree on the
\* comparison-relevant keys have the same hash, the table has an entry for
\* it, and the table has as many entries as the node list has distinct
\* reduced materials.
C1_OneEntryPerReducedMaterial ==
    MaterialsDone =>
        /\ \A e1, e2 \in Entries(data3d_objects) :
              Agree(RawOf(data3d_objects, e1), RawOf(data3d_objects, e2), import_metadata) =>
                  /\ HashOf(data3d_objects, mat_hash_map, e1) =
                     HashOf(data3d_objects, mat_hash_map, e2)
                  /\ HashOf(data3d_objects, mat_hash_map, e1) \in DOMAIN bl_materials
        /\ Cardinality(DOMAIN bl_materials) =
           Cardinality({Reduced(RawOf(data3d_objects, e), import_metadata) :
                           e \in Entries(data3d_objects)})

\* C2: two raw materials get the same hash if and only if they have the same
\* comparison-relevant keys present with the same values; the reduced record
\* holds the relevant keys only.
C2_HashEqualIffAgree ==
    pc = "hashed" =>
        /\ (hashA[1] = hashB[1]) <=> Agree(matA, matB, import_metadata)
        /\ DOMAIN hashA[2] = PresentRelevant(matA, import_metadata)
        /\ DOMAIN hashB[2] = PresentRelevant(matB, import_metadata)

\* C3: after import_data3d_materials every node's mat_hash_map has exactly the
\* node's material keys, each mapped to the string of its material's hash,
\* and every value is a key of the returned table.
C3_HashMapComplete ==
    MaterialsDone =>
        \A n \in DOMAIN data3d_objects :
            LET node == data3d_objects[n] IN
            /\ node.node_id \in DOMAIN mat_hash_map
            /\ DOMAIN mat_hash_map[node.node_id] =
               {node.materials[k][1] : k \in DOMAIN node.materials}
            /\ \A k \in DOMAIN node.materials :
                  /\ mat_hash_map[node.node_id][node.materials[k][1]] =
                     py_str(get_al_material_hash(node.materials[k][2], import_metadata)[1])
                  /\ mat_hash_map[node.node_id][node.materials[k][1]] \in DOMAIN bl_materials

C3_Witness ==
    /\ MaterialsDone
    /\ Len(data3d_objects) = 2
    /\ Len(data3d_objects[1].materials) = 2
    /\ Len(data3d_objects[2].materials) = 1
    /\ Cardinality(DOMAIN bl_materials) = 2

\* the first place, in node order then key order, whose material has hash h
FirstWithHash(h) ==
    CHOOSE e \in Processed :
        /\ get_al_material_hash(RawOf(data3d_objects, e), import_metadata)[1] = h
        /\ \A f \in Processed :
              get_al_material_hash(RawOf(data3d_objects, f), import_metadata)[1] = h =>
                  ~Before(f, e)

C4_FirstSeenStored ==
    pc \in {"dedup", "materials_done"} =>
        \A h \in DOMAIN al_hashed_materials :
            al_hashed_materials[h] =
                Reduced(RawOf(data3d_objects, FirstWithHash(h)), import_metadata)

C4_EntryKept ==
    pc = "dedup" =>
        \A h \in DOMAIN al_hashed_materials :
            /\ h \in DOMAIN al_hashed_materials'
            /\ al_hashed_materials'[h] = al_hashed_materials[h]

\* C4: first-seen-wins: while the node list is processed an entry of the table
\* is never replaced or modified, and the record stored for a hash is the
\* reduced record of the first material, in node order then key order, with
\* that hash.
C4_FirstSeenWins == []C4_FirstSeenStored /\ [][C4_EntryKept]_vars

\* two materials with one hash and different reduced records: the table holds
\* the first's
C4_Witness ==
    /\ MaterialsDone
    /\ \E e1, e2 \in Entries(data3d_objects) :
          /\ Before(e1, e2)
          /\ HashOf(data3d_objects, mat_hash_map, e1) = HashOf(data3d_objects, mat_hash_map, e2)
          /\ Reduced(RawOf(data3d_objects, e1), import_metadata) #
             Reduced(RawOf(data3d_objects, e2), import_metadata)
          /\ bl_materials[HashOf(data3d_objects, mat_hash_map, e1)].al_material =
             Reduced(RawOf(data3d_objects, e1), import_metadata)

SecondRun(how) == MaterialsDone /\ prev # <<>> /\ prev[1].how = how

\* C5: a second run on the same node list in the same mode gives a table with
\* the same keys and records and the same mat_hash_map for every node.
C5_Idempotent ==
    SecondRun("same") =>
        /\ bl_materials = prev[1].bl_materials
        /\ mat_hash_map = prev[1].mat_hash_map

C5_Witness ==
    /\ SecondRun("same")
    /\ Cardinality(DOMAIN bl_materials) = 2
    /\ Len(data3d_objects) = 2

\* C6: reordering a material's pairs, a node's material keys or the nodes
\* changes no local key's hash and no entry of the table.
C6_OrderIndependent ==
    SecondRun("order") =>
        /\ bl_materials = prev[1].bl_materials
        /\ mat_hash_map = prev[1].mat_hash_map

\* A and B differ in the three internal-use keys and in nothing else
DifferOnlyInternal(A, B) == Agree(A, B, FALSE) /\ ~Agree(A, B, TRUE)

\* C7: with import_metadata off, two materials that differ only in the three
\* internal-use keys get one hash and one table entry; with import_metadata
\* on they get two hashes and two table entries.
C7_MetadataMode ==
    SecondRun("mode") =>
        LET on == IF import_metadata
                  THEN [maps |-> mat_hash_map, table |-> bl_materials]
                  ELSE [maps |-> prev[1].mat_hash_map, table |-> prev[1].bl_materials]
            off == IF import_metadata
                   THEN [maps |-> prev[1].mat_hash_map, table |-> prev[1].bl_materials]
                   ELSE [maps |-> mat_hash_map, table |-> bl_materials]
        IN \A e1, e2 \in Entries(data3d_objects) :
              DifferOnlyInternal(RawOf(data3d_objects, e1), RawOf(data3d_objects, e2)) =>
                  /\ HashOf(data3d_objects, off.maps, e1) = HashOf(data3d_objects, off.maps, e2)
                  /\ HashOf(data3d_objects, off.maps, e1) \in DOMAIN off.table
                  /\ HashOf(data3d_objects, on.maps, e1) # HashOf(data3d_objects, on.maps, e2)
                  /\ {HashOf(data3d_objects, on.maps, e1), HashOf(data3d_objects, on.maps, e2)}
                        \subseteq DOMAIN on.table

C7_Witness ==
    /\ SecondRun("mode")
    /\ \E e1, e2 \in Entries(data3d_objects) :
          DifferOnlyInternal(RawOf(data3d_objects, e1), RawOf(data3d_objects, e2))
    /\ Cardinality(DOMAIN bl_materials) # Cardinality(DOMAIN prev[1].bl_materials)

----------------------------------------------------------------------------
(* import_scene *)

\* a material slot of an object: the default material, or the Blender
\* material named after a hash string
DefaultSlot == [kind |-> "default", key |-> py_str({})]
HashedSlot(hashed_key) == [kind |-> "hashed", key |-> hashed_key]

\* the parameters of Material.get_al_mat_node besides self
get_al_mat_node_params == {"key"}

\* Material.get_al_mat_node: <<value>>, or <<>> for None
get_al_mat_node(al_material, key) ==
    IF key \in DOMAIN al_material THEN <<al_material[key]>> ELSE <<>>

\* the arguments of the call mat.get_al_mat_node(D3D.coef_emit, fallback=0.0)
emission_call_args == {"key", "fallback"}

\* mat.get_al_mat_node(D3D.coef_emit, fallback=0.0) > 0.0: "True", "False", or
\* "TypeError" for a call the method's signature does not accept and for a
\* comparison of None or a tuple with 0.0
emission_check(mat) ==
    IF ~(emission_call_args \subseteq get_al_mat_node_params)
    THEN "TypeError"
    ELSE LET r == get_al_mat_node(mat.al_material, "coef_emit") IN
         IF r = <<>> \/ r[1].t # "num" THEN "TypeError"
         ELSE IF r[1].e[1] > 0 THEN "True" ELSE "False"

NoMaterial == [materials |-> <<>>, is_emissive |-> FALSE, error |-> NoError]

\* faulty variant: a key that is not in the node's map raises nothing and leaves the
\* mesh without material
apply_material_lenient(al_mesh, hash_map, table) ==
    IF al_mesh.material # <<>>
    THEN LET original_key == al_mesh.material[1] IN
         IF original_key # ""
         THEN IF original_key \in DOMAIN hash_map /\ hash_map[original_key] \in DOMAIN table
              THEN LET mat == table[hash_map[original_key]]
                       chk == emission_check(mat)
                   IN [materials |-> <<HashedSlot(mat.al_material_hash)>>,
                       is_emissive |-> chk = "True",
                       error |-> IF chk = "TypeError" THEN "TypeError" ELSE NoError]
              ELSE NoMaterial
         ELSE NoMaterial
    ELSE [NoMaterial EXCEPT !.materials = <<DefaultSlot>>]

\* the material of one mesh: the slots appended to ob.data.materials, whether
\* the mesh is emissive, and the exception raised, if any.  al_mesh.material
\* is <<>> when the mesh has no material key and <<key>> when it has one.
apply_material(al_mesh, hash_map, table) ==
    IF al_mesh.material # <<>>
    THEN LET original_key == al_mesh.material[1] IN
         IF original_key # ""
         THEN IF original_key \in DOMAIN hash_map /\ hash_map[original_key] \in DOMAIN table
              THEN LET mat == table[hash_map[original_key]]
                       chk == emission_check(mat)
                   IN [materials |-> <<HashedSlot(mat.al_material_hash)>>,
                       is_emissive |-> chk = "True",
                       error |-> IF chk = "TypeError" THEN "TypeError" ELSE NoError]
              ELSE [NoMaterial EXCEPT !.error = "Material not found"]
         ELSE NoMaterial
    ELSE [NoMaterial EXCEPT !.materials = <<DefaultSlot>>]

\* Transforms are words over symbols, composed by concatenation: what holds of
\* the words holds of every choice of matrices, and two different words are
\* different transforms for some choice of matrices.
Identity == <<>>

\* kwargs['global_matrix']
global_matrix == << <<"G", 0>> >>

\* data3d_object.position and data3d_object.rotation of a node
local_transform(node_id) == << <<"T", node_id>> >>

\* ob = D.objects.new(...): an object, not yet linked to the scene.
\* transform is the object's location and rotation, relative to its parent;
\* data is the transform applied to the vertices of the object's data;
\* matrix_world_set counts the assignments to the object's matrix_world.
NewObject(type, node_id, mesh, slots) ==
    [type |-> type, node |-> node_id, role |-> "mesh", mesh |-> mesh,
     materials |-> slots, parent |-> 0, linked |-> FALSE, exists |-> TRUE,
     transform |-> Identity, data |-> Identity, matrix_world_set |-> 0]

\* obj.matrix_world: the transforms of the object's ancestors, outermost
\* first, then its own
RECURSIVE matrix_world(_, _)
matrix_world(objs, o) ==
    IF objs[o].parent = 0 THEN objs[o].transform
    ELSE matrix_world(objs, objs[o].parent) \o objs[o].transform

\* BKE_object_parent_loop_check(par, ob): ob is par or one of its ancestors
RECURSIVE parent_loop_check(_, _, _)
parent_loop_check(objs, par, ob) ==
    IF par = 0 THEN FALSE
    ELSE IF par = ob THEN TRUE
    ELSE parent_loop_check(objs, objs[par].parent, ob)

\* O.object.transform_apply(location, rotation, scale) on the selected
\* objects: the object's transform goes into its data and is reset
transform_apply(objs, selected) ==
    [o \in DOMAIN objs |->
        IF o \in selected
        THEN [objs[o] EXCEPT !.data = objs[o].transform \o @, !.transform = Identity]
        ELSE objs[o]]

\* faulty variant: the objects of the list are selected and their transforms applied
normalise_objects_all(objs, objects) == transform_apply(objs, Range(objects))

\* normalise_objects(objects, apply_location=True) on a list of objects, 0
\* for None: the group selected is that of the objects with
\* obj is None and obj.type != 'MESH'
normalise_objects(objs, objects) ==
    transform_apply(objs, {o \in Range(objects) : o = 0 /\ objs[o].type # "MESH"})

\* the number of times x occurs in the list s
Count(s, x) == Cardinality({i \in DOMAIN s : s[i] = x})

\* faulty variant: the materials are imported whatever import_materials says
SkipMaterials_import ==
    /\ pc = "start"
    /\ ~import_materials
    /\ al_hashed_materials' = EmptyDict
    /\ material_hash_map' = EmptyDict
    /\ ni' = 1
    /\ ki' = 1
    /\ pc' = "dedup"
    /\ UNCHANGED <<data3d_objects, import_metadata, import_materials,
                   mat_hash_map, bl_materials, prev>>
    /\ UNCHANGED <<hashVars, sceneVars, meshVars, blenderVars>>

\* if import_materials: bl_materials = import_data3d_materials(...)
SkipMaterials ==
    /\ pc = "start"
    /\ ~import_materials
    /\ bl_materials' = EmptyDict
    /\ ni' = 1
    /\ mi' = 1
    /\ pc' = "meshes"
    /\ UNCHANGED <<data3d_objects, import_metadata, import_materials,
                   al_hashed_materials, material_hash_map, ki, mat_hash_map, prev,
                   import_hierarchy, bl_meshes, bl_emission_meshes, D_objects,
                   D_materials, bl_object, bl_emission_object, bl_root_objects, error>>
    /\ UNCHANGED <<hashVars, meshVars, blenderVars>>

\* import_data3d_materials has returned
MaterialsReturn ==
    /\ pc = "materials_done"
    /\ ni' = 1
    /\ mi' = 1
    /\ D_materials' = D_materials \cup {HashedSlot(k) : k \in DOMAIN bl_materials}
    /\ pc' = "meshes"
    /\ UNCHANGED <<data3d_objects, import_metadata, import_materials,
                   al_hashed_materials, material_hash_map, ki, mat_hash_map,
                   bl_materials, prev, import_hierarchy, bl_meshes,
                   bl_emission_meshes, D_objects, bl_object, bl_emission_object,
                   bl_root_objects, error>>
    /\ UNCHANGED <<hashVars, meshVars, blenderVars>>

\* one pass of the loop over a node's meshes
ProcessMesh ==
    /\ pc = "meshes"
    /\ ni <= Len(data3d_objects)
    /\ mi <= Len(data3d_objects[ni].meshes)
    /\ LET node == data3d_objects[ni]
           al_mesh == node.meshes[mi]
           res == IF import_materials
                  THEN apply_material(al_mesh, mat_hash_map[node.node_id], bl_materials)
                  ELSE NoMaterial
           id == Len(D_objects) + 1
           ob == NewObject("MESH", node.node_id, mi, res.materials)
       IN IF res.error # NoError
          THEN /\ D_objects' = Append(D_objects, ob)
               /\ error' = res.error
               /\ pc' = "failed"
               /\ UNCHANGED <<mi, bl_meshes, bl_emission_meshes, D_materials>>
          ELSE /\ D_objects' = Append(D_objects, [ob EXCEPT !.linked = TRUE])
               /\ D_materials' = D_materials \cup Range(res.materials)
               /\ bl_emission_meshes' =
                     IF res.is_emissive THEN Append(bl_emission_meshes, id)
                     ELSE bl_emission_meshes
               /\ bl_meshes' = IF res.is_emissive THEN bl_meshes ELSE Append(bl_meshes, id)
               /\ mi' = mi + 1
               /\ UNCHANGED <<pc, error>>
    /\ UNCHANGED <<data3d_objects, import_metadata, import_materials,
                   al_hashed_materials, material_hash_map, ni, ki, mat_hash_map,
                   bl_materials, prev, import_hierarchy, bl_object,
                   bl_emission_object, bl_root_objects>>
    /\ UNCHANGED <<hashVars, meshVars, blenderVars>>

\* the material slots of a joined object: those of the first object, then
\* those of the others that it does not have yet
RECURSIVE MergeSlots(_, _)
MergeSlots(objs, group) ==
    IF group = <<>> THEN <<>>
    ELSE LET rest == MergeSlots(objs, SubSeq(group, 1, Len(group) - 1))
             last == objs[group[Len(group)]].materials
         IN rest \o SelectSeq(last, LAMBDA m : m \notin Range(rest))

\* join_objects(group), naming the result: the objects of the group are joined
\* into the first, the others are gone
JoinInto(objs, group, role) ==
    [id \in DOMAIN objs |->
        IF id = group[1]
        THEN [objs[id] EXCEPT !.role = role, !.materials = MergeSlots(objs, group)]
        ELSE IF id \in Range(group)
             THEN [objs[id] EXCEPT !.exists = FALSE, !.linked = FALSE]
             ELSE objs[id]]

\* after the meshes of a node: its primary object and its emission object
FinishNode ==
    /\ pc = "meshes"
    /\ ni <= Len(data3d_objects)
    /\ mi > Len(data3d_objects[ni].meshes)
    /\ LET node == data3d_objects[ni]
           empty == [NewObject("EMPTY", node.node_id, 0, <<>>) EXCEPT
                        !.role = "primary", !.linked = TRUE]
           primary == IF Len(bl_meshes) > 0
                      THEN JoinInto(D_objects, bl_meshes, "primary")
                      ELSE Append(D_objects, empty)
           primary_id == IF Len(bl_meshes) > 0 THEN bl_meshes[1] ELSE Len(D_objects) + 1
           joined == IF Len(bl_emission_meshes) > 0
                     THEN JoinInto(primary, bl_emission_meshes, "emission")
                     ELSE primary
       IN /\ D_objects' = [joined EXCEPT
                              ![primary_id].transform = local_transform(node.node_id)]
          /\ bl_object' = DictSet(bl_object, node.node_id, primary_id)
          /\ bl_emission_object' =
                IF Len(bl_emission_meshes) > 0
                THEN DictSet(bl_emission_object, node.node_id, bl_emission_meshes[1])
                ELSE bl_emission_object
    /\ bl_meshes' = <<>>
    /\ bl_emission_meshes' = <<>>
    /\ ni' = ni + 1
    /\ mi' = 1
    /\ UNCHANGED <<data3d_objects, import_metadata, import_materials, pc,
                   al_hashed_materials, material_hash_map, ki, mat_hash_map,
                   bl_materials, prev, import_hierarchy, D_materials,
                   bl_root_objects, error>>
    /\ UNCHANGED <<hashVars, meshVars, blenderVars>>

\* faulty variant: the parents are linked as soon as the first node has its objects
MeshesDone_early ==
    /\ pc = "meshes"
    /\ ni > 1
    /\ mi = 1
    /\ bl_root_objects' = <<>>
    /\ ni' = 1
    /\ pc' = "parents"
    /\ UNCHANGED <<data3d_objects, import_metadata, import_materials,
                   al_hashed_materials, material_hash_map, ki, mat_hash_map,
                   bl_materials, prev, import_hierarchy, mi, bl_meshes,
                   bl_emission_meshes, D_objects, D_materials, bl_object,
                   bl_emission_object, error>>
    /\ UNCHANGED <<hashVars, meshVars, blenderVars>>

\* every node has its objects: on to the parent - children relationships
MeshesDone ==
    /\ pc = "meshes"
    /\ ni > Len(data3d_objects)
    /\ bl_root_objects' = <<>>
    /\ ni' = 1
    /\ pc' = "parents"
    /\ UNCHANGED <<data3d_objects, import_metadata, import_materials,
                   al_hashed_materials, material_hash_map, ki, mat_hash_map,
                   bl_materials, prev, import_hierarchy, mi, bl_meshes,
                   bl_emission_meshes, D_objects, D_materials, bl_object,
                   bl_emission_object, error>>
    /\ UNCHANGED <<hashVars, meshVars, blenderVars>>

\* parent.bl_object of a parent that is not in the node list, so that
\* set_bl_object was never called on it: the attribute's initial value None,
\* or an AttributeError if the object has no such attribute
unset_bl_object == {"None", "AttributeError"}

\* ob.parent = par: the host refuses a parent that has ob among its ancestors
\* and leaves ob without parent; par is 0 for None
set_parent(objs, ob, par) ==
    [objs EXCEPT ![ob].parent = IF parent_loop_check(objs, par, ob) THEN 0 ELSE par]

\* faulty variant: a node with a parent is listed with the root objects as well
root_objects_all(node, id, emission) == <<id>> \o emission

\* what a node adds to bl_root_objects: id is its primary object, emission
\* the list of its emission object, if it has one
root_objects(node, id, emission) ==
    IF node.parent # 0 THEN <<>> ELSE <<id>> \o emission

\* one pass of the loop that makes the parent - children relationships
ParentNode ==
    /\ pc = "parents"
    /\ ni <= Len(data3d_objects)
    /\ LET node == data3d_objects[ni]
           id == bl_object[node.node_id]
           emission == IF node.node_id \in DOMAIN bl_emission_object
                       THEN <<bl_emission_object[node.node_id]>> ELSE <<>>
       IN \E unset \in unset_bl_object :
             LET known == node.parent \in DOMAIN bl_object
                 par == IF known THEN bl_object[node.parent] ELSE 0
                 linked == set_parent(D_objects, id, par)
             IN /\ known => unset = "None"
                /\ IF node.parent # 0 /\ ~known /\ unset = "AttributeError"
                   THEN /\ error' = "AttributeError"
                        /\ pc' = "failed"
                        /\ UNCHANGED <<ni, D_objects, bl_root_objects>>
                   ELSE /\ D_objects' =
                             IF node.parent = 0 THEN D_objects
                             ELSE IF emission = <<>> THEN linked
                             ELSE set_parent(linked, emission[1], par)
                        /\ bl_root_objects' =
                             bl_root_objects \o root_objects(node, id, emission)
                        /\ ni' = ni + 1
                        /\ UNCHANGED <<pc, error>>
    /\ UNCHANGED <<data3d_objects, import_metadata, import_materials,
                   al_hashed_materials, material_hash_map, ki, mat_hash_map,
                   bl_materials, prev, import_hierarchy, mi, bl_meshes,
                   bl_emission_meshes, D_materials, bl_object, bl_emission_object>>
    /\ UNCHANGED <<hashVars, meshVars, blenderVars>>

\* for obj in bl_root_objects: obj.matrix_world = global_matrix
ApplyGlobalMatrix ==
    /\ pc = "parents"
    /\ ni > Len(data3d_objects)
    /\ LET objs == normalise_objects(D_objects, bl_root_objects) IN
          D_objects' = [o \in DOMAIN objs |->
                           IF o \in Range(bl_root_objects)
                           THEN [objs[o] EXCEPT
                                    !.transform = global_matrix,
                                    !.matrix_world_set = @ + Count(bl_root_objects, o)]
                           ELSE objs[o]]
    /\ pc' = "cleanup"
    /\ UNCHANGED <<data3d_objects, import_metadata, import_materials,
                   al_hashed_materials, material_hash_map, ni, ki, mat_hash_map,
                   bl_materials, prev, import_hierarchy, mi, bl_meshes,
                   bl_emission_meshes, D_materials, bl_object, bl_emission_object,
                   bl_root_objects, error>>
    /\ UNCHANGED <<hashVars, meshVars, blenderVars>>

\* data3d_object.children
Children(node_id) == {n \in DOMAIN data3d_objects : data3d_objects[n].parent = node_id}

PrimaryIds == {bl_object[k] : k \in DOMAIN bl_object}

\* bl_objects = [o.bl_object for o in data3d_objects]
bl_objects == [n \in DOMAIN data3d_objects |-> bl_object[data3d_objects[n].node_id]]

\* faulty variant: the operator runs on an empty selection
parent_clear_none(objs, selected) == objs

\* O.object.parent_clear(type='CLEAR_KEEP_TRANSFORM') on the selected objects
parent_clear(objs, selected) ==
    [o \in DOMAIN objs |->
        IF o \in selected
        THEN [objs[o] EXCEPT !.parent = 0, !.transform = matrix_world(objs, o)]
        ELSE objs[o]]

\* C.scene.objects.unlink(bl_object); D.objects.remove(bl_object)
remove_objects(objs, removed) ==
    [o \in DOMAIN objs |->
        IF o \in removed
        THEN [objs[o] EXCEPT !.exists = FALSE, !.linked = FALSE]
        ELSE objs[o]]

\* faulty variant: every empty is removed, with or without children
removed_empties_all(objs, hierarchy) ==
    {o \in PrimaryIds : objs[o].type = "EMPTY"}

\* the primary objects that are unlinked and removed: with the hierarchy, the
\* empties of the nodes without children; without it, every empty
removed_empties(objs, hierarchy) ==
    {o \in PrimaryIds :
        /\ objs[o].type = "EMPTY"
        /\ hierarchy => Children(objs[o].node) = {}}

\* the last stage: with the hierarchy kept, the empties without children are
\* removed; without it, the primary objects lose their parents and every
\* empty is removed
Cleanup ==
    /\ pc = "cleanup"
    /\ D_objects' =
          IF import_hierarchy
          THEN remove_objects(D_objects, removed_empties(D_objects, TRUE))
          ELSE LET cleared == parent_clear(D_objects, PrimaryIds)
                   objs == normalise_objects(cleared, bl_objects)
               IN remove_objects(objs, removed_empties(objs, FALSE))
    /\ pc' = "done"
    /\ UNCHANGED <<data3d_objects, import_metadata, import_materials,
                   al_hashed_materials, material_hash_map, ni, ki, mat_hash_map,
                   bl_materials, prev, import_hierarchy, mi, bl_meshes,
                   bl_emission_meshes, D_materials, bl_object, bl_emission_object,
                   bl_root_objects, error>>
    /\ UNCHANGED <<hashVars, meshVars, blenderVars>>

----------------------------------------------------------------------------
(* Specification of import_scene *)

SceneItems == 3

SceneMaterials ==
    { << <<"coef_emit", Num(2)>> >>,
      << <<"coef_emit", Num(0)>> >>,
      << <<"opacity", Num(2)>> >> }

\* a node's materials, under the keys "a" and then "b"
SceneNodeMaterials ==
    {<<>>} \cup {<< <<"a", m>> >> : m \in SceneMaterials}
           \cup {<< <<"a", m[1]>>, <<"b", m[2]>> >> : m \in SceneMaterials \X SceneMaterials}

\* a mesh without material key, with the empty key, with the key "a" or "b"
SceneMeshes == {[material |-> r] : r \in {<<>>, <<"">>, <<"a">>, <<"b">>}}

BodyItems(b) == Len(b.materials) + Len(b.meshes)

\* the materials and meshes of one node, at most k of them together
SceneNodeBodies(k) ==
    {b \in [materials : SceneNodeMaterials,
            meshes : UNION {[1..n -> SceneMeshes] : n \in 0..k}] : BodyItems(b) <= k}

\* the node lists of a scene: every node after the first, every mesh and
\* every material counts as one item, and there are at most budget of them
RECURSIVE SceneBodies(_)
SceneBodies(budget) ==
    {<<b>> : b \in SceneNodeBodies(budget)} \cup
    (IF budget = 0 THEN {}
     ELSE UNION {{<<b>> \o rest : rest \in SceneBodies(budget - 1 - BodyItems(b))} :
                    b \in SceneNodeBodies(budget - 1)})

\* the parent of node i is parents[i], 0 for a root; every chain ends at a root
RECURSIVE ReachesRoot(_, _, _)
ReachesRoot(parents, i, steps) ==
    IF parents[i] = 0 THEN TRUE
    ELSE IF steps = 0 THEN FALSE
    ELSE ReachesRoot(parents, parents[i], steps - 1)

Forests(n) ==
    {parents \in [1..n -> 0..n] : \A i \in 1..n : ReachesRoot(parents, i, n)}

InitScene ==
    /\ \E bodies \in SceneBodies(SceneItems) :
          \E parents \in Forests(Len(bodies)) :
              data3d_objects =
                  [i \in DOMAIN bodies |->
                      [node_id |-> i, materials |-> bodies[i].materials,
                       meshes |-> bodies[i].meshes, parent |-> parents[i]]]
    /\ import_metadata = FALSE
    /\ import_materials \in BOOLEAN
    /\ import_hierarchy \in BOOLEAN
    /\ pc = "start"
    /\ al_hashed_materials = EmptyDict
    /\ material_hash_map = EmptyDict
    /\ ni = 1
    /\ ki = 1
    /\ mat_hash_map = EmptyDict
    /\ bl_materials = EmptyDict
    /\ prev = <<>>
    /\ matA = <<>>
    /\ matB = <<>>
    /\ hashA = NoHash
    /\ hashB = NoHash
    /\ SceneInit
    /\ MeshIdle
    /\ BlenderIdle

Init == InitScene

Next ==
    \/ SkipMaterials
    \/ DedupBegin
    \/ DedupKey
    \/ DedupNodeEnd
    \/ DedupCreate
    \/ MaterialsReturn
    \/ ProcessMesh
    \/ FinishNode
    \/ MeshesDone
    \/ ParentNode
    \/ ApplyGlobalMatrix
    \/ Cleanup

Spec == Init /\ [][Next]_vars

----------------------------------------------------------------------------
(* C8 .. C10: the materials of the meshes in import_scene *)

LocalKeysOf(node) == {node.materials[k][1] : k \in DOMAIN node.materials}

\* the material key of mesh m of node n, <<>> when it has none
MeshKey(n, m) == data3d_objects[n].meshes[m].material

\* mesh m of node n has a non-empty key that its node's materials do not have
Dangling(n, m) ==
    /\ MeshKey(n, m) # <<>>
    /\ MeshKey(n, m)[1] # ""
    /\ MeshKey(n, m)[1] \notin LocalKeysOf(data3d_objects[n])

MeshPlaces ==
    {p \in (DOMAIN data3d_objects) \X (1..(SceneItems + 1)) :
        p[2] \in DOMAIN data3d_objects[p[1]].meshes}

\* the objects created for single meshes, then those not yet joined
MeshObjects == {o \in DOMAIN D_objects : D_objects[o].mesh # 0}
UnjoinedObjects == {o \in MeshObjects : D_objects[o].role = "mesh"}

\* C8: with import_materials on, a mesh with a non-empty material key that is
\* not a key of its node's materials makes the import fail with the error
\* 'Material not found': its object is never linked to the scene and the
\* import of a scene with such a mesh never completes.
C8_MissingKeyFails ==
    import_materials =>
        /\ \A o \in MeshObjects :
              Dangling(D_objects[o].node, D_objects[o].mesh) =>
                  /\ pc = "failed"
                  /\ error = "Material not found"
                  /\ ~D_objects[o].linked
        /\ pc = "done" => \A p \in MeshPlaces : ~Dangling(p[1], p[2])

\* the import has failed at a mesh with a missing key, after another mesh of
\* the scene has got its object
C8_Witness ==
    /\ import_materials
    /\ pc = "failed"
    /\ error = "Material not found"
    /\ Len(D_objects) = 2
    /\ Dangling(D_objects[2].node, D_objects[2].mesh)
    /\ D_objects[1].linked

\* C9: with import_materials on, a mesh without material key and a mesh with
\* the empty material key both get the default material as their one
\* material slot, and neither raises an error.
C9_DefaultMaterial ==
    import_materials =>
        \A o \in UnjoinedObjects :
            MeshKey(D_objects[o].node, D_objects[o].mesh) \in {<<>>, <<"">>} =>
                /\ D_objects[o].materials = <<DefaultSlot>>
                /\ D_objects[o].linked

\* mesh m of node n has the key of a material whose emission coefficient is > 0
EmissiveMesh(n, m) ==
    /\ MeshKey(n, m) # <<>>
    /\ MeshKey(n, m)[1] \in LocalKeysOf(data3d_objects[n])
    /\ LET raw == GetKey(data3d_objects[n].materials, MeshKey(n, m)[1]) IN
          HasKey(raw, "coef_emit") /\ GetKey(raw, "coef_emit").e[1] > 0

\* C10: import_scene completes, and a node has one emission sub-object if one
\* of its meshes resolves to a material with emission coefficient > 0 and none
\* otherwise; the emission sub-object has the parent of the node's primary
\* object.
C10_EmissionObjects ==
    (import_materials /\ \A p \in MeshPlaces : ~Dangling(p[1], p[2])) =>
        /\ pc # "failed"
        /\ pc = "cleanup" =>
              \A n \in DOMAIN data3d_objects :
                  IF \E m \in DOMAIN data3d_objects[n].meshes : EmissiveMesh(n, m)
                  THEN /\ n \in DOMAIN bl_emission_object
                       /\ D_objects[bl_emission_object[n]].exists
                       /\ D_objects[bl_emission_object[n]].role = "emission"
                       /\ D_objects[bl_emission_object[n]].parent =
                          D_objects[bl_object[n]].parent
                  ELSE n \notin DOMAIN bl_emission_object

----------------------------------------------------------------------------
(* C11 .. C13: the hierarchy in import_scene *)

\* the node with an id
NodeById(node_id) ==
    data3d_objects[CHOOSE n \in DOMAIN data3d_objects : data3d_objects[n].node_id = node_id]

\* the primary object of a node
PrimaryOf(node) == D_objects[bl_object[node.node_id]]

\* C11: with import_hierarchy on, after import_scene the primary object of a
\* node is removed if and only if the node has no meshes and no children;
\* every other node's object is in the scene, with the primary object of the
\* node's parent as its parent, which is in the scene as well.
C11_HierarchyKept ==
    (pc = "done" /\ import_hierarchy) =>
        \A n \in DOMAIN data3d_objects :
            LET node == data3d_objects[n]
                ob == PrimaryOf(node)
            IN /\ ~ob.exists <=> (node.meshes = <<>> /\ Children(node.node_id) = {})
               /\ ob.exists =>
                     /\ ob.linked
                     /\ ob.parent = IF node.parent = 0 THEN 0 ELSE bl_object[node.parent]
                     /\ ob.parent # 0 => D_objects[ob.parent].exists

\* a grouping node without meshes is kept with its child, which has meshes,
\* and a node without meshes and without children is removed
C11_Witness ==
    /\ pc = "done"
    /\ import_hierarchy
    /\ \E n, c, e \in DOMAIN data3d_objects :
          /\ data3d_objects[n].meshes = <<>>
          /\ data3d_objects[c].parent = data3d_objects[n].node_id
          /\ data3d_objects[c].meshes # <<>>
          /\ PrimaryOf(data3d_objects[n]).exists
          /\ PrimaryOf(data3d_objects[c]).parent = bl_object[data3d_objects[n].node_id]
          /\ ~PrimaryOf(data3d_objects[e]).exists

ObjectsOf(node) ==
    {bl_object[node.node_id]} \cup
    (IF node.node_id \in DOMAIN bl_emission_object
     THEN {bl_emission_object[node.node_id]} ELSE {})

\* every node with a parent has its objects linked to the parent's object
ParentsSet ==
    \A n \in DOMAIN data3d_objects :
        data3d_objects[n].parent # 0 =>
            \A o \in ObjectsOf(data3d_objects[n]) :
                D_objects[o].parent = bl_object[data3d_objects[n].parent]

C13_RootsOnly ==
    /\ \A o \in DOMAIN D_objects :
          /\ D_objects[o].matrix_world_set <= 1
          /\ D_objects[o].matrix_world_set = 1 =>
                /\ NodeById(D_objects[o].node).parent = 0
                /\ D_objects[o].parent = 0
    /\ pc \in {"cleanup", "done"} =>
          \A n \in DOMAIN data3d_objects :
              data3d_objects[n].parent = 0 =>
                  \A o \in ObjectsOf(data3d_objects[n]) :
                      D_objects[o].matrix_world_set = 1

C13_AfterLinks ==
    (\E o \in DOMAIN D_objects :
        /\ o \in DOMAIN D_objects'
        /\ D_objects'[o].matrix_world_set # D_objects[o].matrix_world_set) =>
            /\ pc = "parents"
            /\ ni > Len(data3d_objects)
            /\ ParentsSet

\* C13: the global matrix is assigned once per import, to the objects of the
\* nodes without parent and to no other object, and only in the step after
\* the loop that has set every parent link.
C13_GlobalOnce == []C13_RootsOnly /\ [][C13_AfterLinks]_vars

\* a root and its child after the assignment: the root has the global
\* matrix, the child has its own transform and the root as parent
C13_Witness ==
    /\ pc = "cleanup"
    /\ \E r, c \in DOMAIN data3d_objects :
          /\ data3d_objects[r].parent = 0
          /\ data3d_objects[c].parent = data3d_objects[r].node_id
          /\ PrimaryOf(data3d_objects[r]).matrix_world_set = 1
          /\ PrimaryOf(data3d_objects[r]).transform = global_matrix
          /\ PrimaryOf(data3d_objects[c]).matrix_world_set = 0
          /\ PrimaryOf(data3d_objects[c]).parent = bl_object[data3d_objects[r].node_id]

----------------------------------------------------------------------------
(* C14: the transforms after flattening *)

\* where the vertices of an object's data are in the world
Placement(o) == matrix_world(D_objects, o) \o D_objects[o].data

\* C14: with import_hierarchy off, after import_scene the object of a node B
\* under a node A under a root is placed by the global matrix, then the
\* root's, then A's, then B's own position and rotation.
C14_FlattenComposition ==
    (pc = "done" /\ ~import_hierarchy) =>
        \A r, a, b \in DOMAIN data3d_objects :
            LET root == data3d_objects[r]
                A == data3d_objects[a]
                B == data3d_objects[b]
            IN (/\ root.parent = 0
                /\ A.parent = root.node_id
                /\ B.parent = A.node_id
                /\ PrimaryOf(B).exists) =>
                   Placement(bl_object[B.node_id]) =
                       global_matrix \o local_transform(root.node_id)
                                     \o local_transform(A.node_id)
                                     \o local_transform(B.node_id)

----------------------------------------------------------------------------
(* Specification of import_scene on node lists whose parent references are   *)
(* not checked: a parent may be a node of the list, the node itself          *)
(* included, or a node that is not in the list                               *)

ParentReferences(n) == [1..n -> 0..(n + 1)]

InitGraph ==
    /\ \E bodies \in SceneBodies(SceneItems) :
          \E parents \in ParentReferences(Len(bodies)) :
              data3d_objects =
                  [i \in DOMAIN bodies |->
                      [node_id |-> i, materials |-> bodies[i].materials,
                       meshes |-> bodies[i].meshes, parent |-> parents[i]]]
    /\ import_metadata = FALSE
    /\ import_materials \in BOOLEAN
    /\ import_hierarchy \in BOOLEAN
    /\ pc = "start"
    /\ al_hashed_materials = EmptyDict
    /\ material_hash_map = EmptyDict
    /\ ni = 1
    /\ ki = 1
    /\ mat_hash_map = EmptyDict
    /\ bl_materials = EmptyDict
    /\ prev = <<>>
    /\ matA = <<>>
    /\ matB = <<>>
    /\ hashA = NoHash
    /\ hashB = NoHash
    /\ SceneInit
    /\ MeshIdle
    /\ BlenderIdle

SpecGraph == InitGraph /\ [][Next]_vars

\* every parent reference is to a node of the list, and every node's chain
\* of parents ends at a root within as many steps as there are nodes
WellFormed(objects) ==
    LET parents == [i \in DOMAIN objects |-> objects[i].parent] IN
    /\ \A i \in DOMAIN objects : parents[i] \in 0..Len(objects)
    /\ \A i \in DOMAIN objects : ReachesRoot(parents, i, Len(objects))

\* C15: import_scene completes only on a node list in which every parent
\* reference is to a node of the list and every chain of parents ends at a
\* root within as many steps as there are nodes; a dangling reference or a
\* cycle is rejected.
C15_HierarchyChecked == pc = "done" => WellFormed(data3d_objects)

----------------------------------------------------------------------------
(* create_mesh *)
(* Indices are Python's, from 0; a sequence holds index k at place k + 1.    *)
(* An optional key of the mesh data is <<>> when absent and <<value>> when   *)
(* present.  me.validate(), which lets the host repair a mesh it finds       *)
(* invalid, is left out.                                                     *)

\* data[key] if key in data else []
get_or_empty(field) == IF field = <<>> THEN <<>> ELSE field[1]

\* list[i]: <<value>>, or <<>> for an IndexError
py_getitem(list, i) ==
    IF 0 <= i /\ i < Len(list) THEN <<list[i + 1]>>
    ELSE IF -Len(list) <= i /\ i < 0 THEN <<list[Len(list) + i + 1]>>
    ELSE <<>>

\* zip(a, b)
zip(a, b) ==
    [k \in 1..(IF Len(a) < Len(b) THEN Len(a) ELSE Len(b)) |-> <<a[k], b[k]>>]

\* the normal and the uv of a loop that nothing has been assigned to
ZeroVector == <<"zero", 0>>

\* nbr_vidx = 3
nbr_vidx == 3

\* faulty variant: the loop start of a face is taken after the count is added
face_loop_start_next(l_idx) == l_idx + nbr_vidx

\* faces_loop_start.append(l_idx)
face_loop_start(l_idx) == l_idx

\* blen_poly.loop_indices
loop_indices(blen_poly) ==
    [j \in 1..blen_poly.loop_total |-> blen_poly.loop_start + j - 1]

\* faulty variant: the value is stored per vertex, so that it reaches every loop
\* of the vertex
RECURSIVE assign_loops_per_vertex(_, _, _)
assign_loops_per_vertex(target, values, pairs) ==
    IF pairs = <<>> THEN <<target>>
    ELSE LET value == py_getitem(values, Head(pairs)[1])
             loop_idx == Head(pairs)[2]
         IN IF value = <<>> \/ loop_idx >= Len(target) THEN <<>>
            ELSE assign_loops_per_vertex(
                     [l \in DOMAIN target |->
                         IF me.vertex_index[l] = me.vertex_index[loop_idx + 1]
                         THEN value[1] ELSE target[l]],
                     values, Tail(pairs))

\* for idx, loop_idx in zip(indices, loop_indices): target[loop_idx] =
\* values[idx]: <<the target after the loop>>, or <<>> for an IndexError
RECURSIVE assign_loops(_, _, _)
assign_loops(target, values, pairs) ==
    IF pairs = <<>> THEN <<target>>
    ELSE LET value == py_getitem(values, Head(pairs)[1])
             loop_idx == Head(pairs)[2]
         IN IF value = <<>> \/ loop_idx >= Len(target) THEN <<>>
            ELSE assign_loops([target EXCEPT ![loop_idx + 1] = value[1]],
                              values, Tail(pairs))

CreateMeshBegin ==
    /\ pc = "create_mesh"
    /\ me' = [total_loops |-> Len(data.faces) * 3,
              loops_vert_idx |-> <<>>,
              faces_loop_start |-> <<>>,
              faces_loop_total |-> <<>>,
              l_idx |-> 0,
              vertices |-> 0,
              vertex_index |-> <<>>,
              polygons |-> <<>>,
              normal |-> <<>>,
              uv_layers |-> EmptyDict,
              normals_split_custom |-> <<>>]
    /\ fi' = 1
    /\ pc' = "faces"
    /\ UNCHANGED <<data, error>>
    /\ UNCHANGED notMeshVars

\* one pass of the loop over the faces that lays out the loops
CreateMeshFace ==
    /\ pc = "faces"
    /\ fi <= Len(data.faces)
    /\ LET f == data.faces[fi]
           v_idx == f[1]
       IN me' = [me EXCEPT !.loops_vert_idx = @ \o v_idx,
                           !.faces_loop_start = Append(@, face_loop_start(me.l_idx)),
                           !.faces_loop_total = Append(@, nbr_vidx),
                           !.l_idx = @ + nbr_vidx]
    /\ fi' = fi + 1
    /\ UNCHANGED <<data, pc, error>>
    /\ UNCHANGED notMeshVars

\* the new mesh, its vertices, loops, polygons and uv layers; foreach_set
\* raises when the list it is given has not the length of the collection
CreateMeshNew ==
    /\ pc = "faces"
    /\ fi > Len(data.faces)
    /\ LET verts_uvs == get_or_empty(data.verts_uvs)
           verts_uvs2 == get_or_empty(data.verts_uvs2)
           blank == [l \in 1..me.total_loops |-> ZeroVector]
           layer1 == IF Len(verts_uvs) > 0
                     THEN DictSet(EmptyDict, "UVMap", blank) ELSE EmptyDict
           layers == IF Len(verts_uvs2) > 0
                     THEN DictSet(layer1, "UVLightmap", blank) ELSE layer1
       IN IF Len(me.loops_vert_idx) # me.total_loops
          THEN /\ error' = "foreach_set"
               /\ pc' = "failed"
               /\ UNCHANGED <<me, fi>>
          ELSE /\ me' = [me EXCEPT
                            !.vertices = Len(data.verts_loc),
                            !.vertex_index = me.loops_vert_idx,
                            !.polygons = [i \in DOMAIN data.faces |->
                                             [loop_start |-> me.faces_loop_start[i],
                                              loop_total |-> me.faces_loop_total[i]]],
                            !.normal = blank,
                            !.uv_layers = layers]
               /\ fi' = 1
               /\ pc' = "loops"
               /\ UNCHANGED error
    /\ UNCHANGED data
    /\ UNCHANGED notMeshVars

\* one pass of the loop over the faces that sets the normals and the uvs of
\* the loops
CreateMeshLoops ==
    /\ pc = "loops"
    /\ fi <= Len(data.faces)
    /\ LET face == data.faces[fi]
           blen_poly == me.polygons[fi]
           verts_uvs == get_or_empty(data.verts_uvs)
           verts_uvs2 == get_or_empty(data.verts_uvs2)
           normal == assign_loops(me.normal, data.verts_nor,
                                  zip(face[2], loop_indices(blen_poly)))
           uv == IF Len(verts_uvs) > 0
                 THEN assign_loops(me.uv_layers["UVMap"], verts_uvs,
                                   zip(face[3], loop_indices(blen_poly)))
                 ELSE <<>>
           uv2 == IF Len(verts_uvs2) > 0
                  THEN assign_loops(me.uv_layers["UVLightmap"], verts_uvs2,
                                    zip(face[4], loop_indices(blen_poly)))
                  ELSE <<>>
       IN IF \/ normal = <<>>
             \/ Len(verts_uvs) > 0 /\ uv = <<>>
             \/ Len(verts_uvs2) > 0 /\ uv2 = <<>>
          THEN /\ error' = "IndexError"
               /\ pc' = "failed"
               /\ UNCHANGED <<me, fi>>
          ELSE /\ me' = [me EXCEPT
                            !.normal = normal[1],
                            !.uv_layers =
                                [name \in DOMAIN me.uv_layers |->
                                    IF name = "UVMap" THEN uv[1] ELSE uv2[1]]]
               /\ fi' = fi + 1
               /\ UNCHANGED <<pc, error>>
    /\ UNCHANGED data
    /\ UNCHANGED notMeshVars

\* the normals of the loops are read back and set as the custom split normals
CreateMeshFinish ==
    /\ pc = "loops"
    /\ fi > Len(data.faces)
    /\ me' = [me EXCEPT !.normals_split_custom = me.normal]
    /\ pc' = "mesh_done"
    /\ UNCHANGED <<data, fi, error>>
    /\ UNCHANGED notMeshVars

----------------------------------------------------------------------------
(* Specification of create_mesh on one mesh *)

MaxFaces == 2

\* data['verts_loc'] and data['verts_nor']: four positions, two normals
MeshVertsLoc == [k \in 1..4 |-> <<"loc", k - 1>>]
MeshVertsNor == [k \in 1..2 |-> <<"nor", k - 1>>]

\* data['verts_uvs']: absent, empty, or two uvs; data['verts_uvs2']: absent
\* or two uvs
MeshVertsUvs == {<<>>, << <<>> >>, << [k \in 1..2 |-> <<"uv", k - 1>>] >>}
MeshVertsUvs2 == {<<>>, << [k \in 1..2 |-> <<"uv2", k - 1>>] >>}

\* the index lists of a face: of the vertices, the normals (2 is not an
\* index of a normal), the uvs and the second uvs
VertIndices == {<<0, 1, 2>>, <<2, 1, 3>>, <<0, 1>>, <<0, 1, 2, 3>>}
NorIndices == {<<0, 0, 0>>, <<1, 0, 1>>, <<0, 1>>, <<0, 1, 2>>}
UvsIndices == {<<0, 1, 0>>, <<0, 1>>}
Uvs2Indices == {<<1, 0, 0>>}

MeshFaces == VertIndices \X NorIndices \X UvsIndices \X Uvs2Indices

MeshData ==
    [verts_loc : {MeshVertsLoc}, verts_nor : {MeshVertsNor},
     verts_uvs : MeshVertsUvs, verts_uvs2 : MeshVertsUvs2,
     faces : UNION {[1..n -> MeshFaces] : n \in 0..MaxFaces}]

InitMesh ==
    /\ data \in MeshData
    /\ me = <<>>
    /\ fi = 1
    /\ pc = "create_mesh"
    /\ data3d_objects = <<>>
    /\ import_metadata = FALSE
    /\ import_materials = FALSE
    /\ al_hashed_materials = EmptyDict
    /\ material_hash_map = EmptyDict
    /\ ni = 1
    /\ ki = 1
    /\ mat_hash_map = EmptyDict
    /\ bl_materials = EmptyDict
    /\ prev = <<>>
    /\ matA = <<>>
    /\ matB = <<>>
    /\ hashA = NoHash
    /\ hashB = NoHash
    /\ import_hierarchy = TRUE
    /\ SceneInit
    /\ BlenderIdle

NextMesh ==
    \/ CreateMeshBegin
    \/ CreateMeshFace
    \/ CreateMeshNew
    \/ CreateMeshLoops
    \/ CreateMeshFinish

SpecMesh == InitMesh /\ [][NextMesh]_vars

----------------------------------------------------------------------------
(* C16 .. C18: the loops of a mesh *)

Faces == data.faces

\* every face has three vertex indices
Triangles == \A i \in DOMAIN Faces : Len(Faces[i][1]) = 3

\* the faces whose loops have been laid out
LaidOut == IF pc = "faces" THEN 1..(fi - 1) ELSE DOMAIN Faces

HasUvs == Len(get_or_empty(data.verts_uvs)) > 0
HasUvs2 == Len(get_or_empty(data.verts_uvs2)) > 0

\* C17: a mesh is built only if every face has three vertex indices, three
\* normal indices and, for each uv array present, three uv indices.
C17_ArityChecked ==
    pc = "mesh_done" =>
        \A i \in DOMAIN Faces :
            /\ Len(Faces[i][1]) = 3
            /\ Len(Faces[i][2]) = 3
            /\ HasUvs => Len(Faces[i][3]) = 3
            /\ HasUvs2 => Len(Faces[i][4]) = 3

----------------------------------------------------------------------------
(* C19, C20: failures and the import without materials *)

\* C19: an import that has failed has raised an exception and has left
\* nothing of the scene it was building: no object linked to the scene and
\* no material.
C19_NoPartialScene ==
    pc = "failed" =>
        /\ error # NoError
        /\ \A o \in DOMAIN D_objects : ~D_objects[o].linked
        /\ D_materials = {}

\* C20: with import_materials off no material is hashed, no table entry and
\* no mat_hash_map is written, no object gets a material slot, no material
\* datablock and no emission object is created, and the import does not
\* fail, whatever the material keys of the meshes are.
C20_MaterialsSkipped ==
    ~import_materials =>
        /\ al_hashed_materials = EmptyDict
        /\ material_hash_map = EmptyDict
        /\ bl_materials = EmptyDict
        /\ mat_hash_map = EmptyDict
        /\ D_materials = {}
        /\ \A o \in DOMAIN D_objects :
              /\ D_objects[o].materials = <<>>
              /\ D_objects[o].role # "emission"
        /\ bl_emission_meshes = <<>>
        /\ bl_emission_object = EmptyDict
        /\ pc # "failed"
        /\ error = NoError

\* an import without materials has completed on a node that has an emissive
\* material, a mesh with its key and a mesh with a key that is missing
C20_Witness ==
    /\ ~import_materials
    /\ pc = "done"
    /\ \E p, q \in MeshPlaces :
          /\ p[1] = q[1]
          /\ EmissiveMesh(p[1], p[2])
          /\ Dangling(q[1], q[2])
          /\ PrimaryOf(data3d_objects[p[1]]).exists
          /\ PrimaryOf(data3d_objects[p[1]]).linked

----------------------------------------------------------------------------
(* C21: the order of the stages of import_scene *)

NodeIds == {data3d_objects[n].node_id : n \in DOMAIN data3d_objects}

\* the stages after the import of the materials, and those after the meshes
PastMaterials == pc \in {"meshes", "parents", "cleanup", "done"}
PastMeshes == pc \in {"parents", "cleanup", "done"}

C21_StagesComplete ==
    /\ ~PastMaterials /\ pc # "failed" => D_objects = <<>>
    /\ (PastMaterials /\ import_materials) =>
          /\ DOMAIN mat_hash_map = NodeIds
          /\ \A n \in DOMAIN data3d_objects :
                \A k \in DOMAIN data3d_objects[n].materials :
                    LET key == data3d_objects[n].materials[k][1] IN
                    /\ key \in DOMAIN mat_hash_map[data3d_objects[n].node_id]
                    /\ mat_hash_map[data3d_objects[n].node_id][key] \in DOMAIN bl_materials
    /\ ~PastMeshes => \A o \in DOMAIN D_objects : D_objects[o].parent = 0
    /\ PastMeshes =>
          /\ DOMAIN bl_object = NodeIds
          /\ \A id \in NodeIds : bl_object[id] \in DOMAIN D_objects

C21_ParentExists ==
    \A o \in DOMAIN D_objects :
        (o \in DOMAIN D_objects' /\ D_objects'[o].parent # D_objects[o].parent
            /\ D_objects'[o].parent # 0) =>
                /\ pc = "parents"
                /\ DOMAIN bl_object = NodeIds
                /\ D_objects'[o].parent = bl_object[NodeById(D_objects[o].node).parent]
                /\ D_objects[D_objects'[o].parent].exists
                /\ D_objects[D_objects'[o].parent].role = "primary"

\* C21: no mesh object is created before every node's materials are hashed
\* and the table is built; no parent link is set before every node has its
\* primary object; when a link is set, it is to the existing primary object
\* of the node's parent, wherever the parent is in the node list.
C21_StageOrder == []C21_StagesComplete /\ [][C21_ParentExists]_vars

\* a node listed before its parent is linked to the parent's object, in an
\* import with materials
C21_Witness ==
    /\ pc = "cleanup"
    /\ import_materials
    /\ \E n \in DOMAIN data3d_objects : data3d_objects[n].materials # <<>>
    /\ \E c, r \in DOMAIN data3d_objects :
          /\ c < r
          /\ data3d_objects[c].parent = data3d_objects[r].node_id
          /\ PrimaryOf(data3d_objects[c]).parent = bl_object[data3d_objects[r].node_id]

----------------------------------------------------------------------------
(* create_blender_material, get_reference_maps *)
(* A string is the sequence of its characters, '' is <<>>.  A colour is the  *)
(* triple of its components in hundredths, (0.85,)*3 is <<85, 85, 85>>; the  *)
(* other numbers of a material are in hundredths too.                        *)

\* d[key] if key in d else default
dict_get(d, key, default) == IF key \in DOMAIN d THEN d[key] ELSE default

\* m.endswith(suffix)
endswith(m, suffix) ==
    /\ Len(m) >= Len(suffix)
    /\ SubSeq(m, Len(m) - Len(suffix) + 1, Len(m)) = suffix

dds == <<".", "d", "d", "s">>

map_types == <<"map_diff", "map_spec", "map_norm", "map_alpha", "map_light">>

\* maps = [source, base, preview], '' for a key that is absent
maps(al_mat, map_key) ==
    <<dict_get(al_mat, map_key \o map_suffix_source, <<>>),
      dict_get(al_mat, map_key, <<>>),
      dict_get(al_mat, map_key \o map_suffix_preview, <<>>)>>

\* faulty variant: the first map that is not empty, '.dds' or not
ref_map_any(candidates) ==
    LET usable == SelectSeq(candidates, LAMBDA m : Len(m) > 0)
    IN IF usable = <<>> THEN <<>> ELSE usable[1]

\* next((m for m in maps if (m and not m.endswith('.dds'))), '')
ref_map(candidates) ==
    LET usable == SelectSeq(candidates, LAMBDA m : Len(m) > 0 /\ ~endswith(m, dds))
    IN IF usable = <<>> THEN <<>> ELSE usable[1]

get_reference_maps(al_mat) ==
    [map_key \in {k \in Range(map_types) : Len(ref_map(maps(al_mat, k))) > 0} |->
        ref_map(maps(al_mat, map_key))]

default_diffuse_color == <<85, 85, 85>>
default_specular_fallback == <<25, 25, 25>>

\* bl_mat = D.materials.new(key): the host's settings of a new material
NewMaterial ==
    [use_fake_user |-> FALSE, diffuse_intensity |-> 80, specular_intensity |-> 50,
     metadata |-> <<>>, diffuse_color |-> <<80, 80, 80>>,
     specular_color |-> <<100, 100, 100>>, specular_hardness |-> 50,
     emit |-> 0, use_transparency |-> FALSE, alpha |-> 100,
     texture_slots |-> EmptyDict]

\* the settings of the material, up to the reference maps
CreateBlenderMaterial ==
    /\ pc = "create_blender_material"
    /\ LET m0 == [NewMaterial EXCEPT !.use_fake_user = TRUE,
                                     !.diffuse_intensity = 100,
                                     !.specular_intensity = 100]
           m1 == IF import_metadata THEN [m0 EXCEPT !.metadata = <<al_mat_arg>>] ELSE m0
           m2 == IF "col_diff" \in DOMAIN al_mat_arg
                 THEN [m1 EXCEPT !.diffuse_color = al_mat_arg["col_diff"]]
                 ELSE [m1 EXCEPT !.diffuse_color = default_diffuse_color]
           m3 == IF "col_spec" \in DOMAIN al_mat_arg
                 THEN [m2 EXCEPT !.specular_color = al_mat_arg["col_spec"]]
                 ELSE [m2 EXCEPT !.diffuse_color = default_specular_fallback]
           m4 == IF "coef_spec" \in DOMAIN al_mat_arg
                 THEN [m3 EXCEPT !.specular_hardness = al_mat_arg["coef_spec"] \div 100]
                 ELSE [m3 EXCEPT !.specular_hardness = 1]
           m5 == IF "coef_emit" \in DOMAIN al_mat_arg
                 THEN [m4 EXCEPT !.emit = al_mat_arg["coef_emit"]]
                 ELSE m4
           m6 == IF "opacity" \in DOMAIN al_mat_arg /\ al_mat_arg["opacity"] < 100
                 THEN [m5 EXCEPT !.use_transparency = TRUE,
                                 !.alpha = al_mat_arg["opacity"]]
                 ELSE m5
       IN bl_mat' = m6
    /\ pc' = "reference_maps"
    /\ UNCHANGED <<al_mat_arg, ref_maps, notBlenderVars>>

\* ref_maps = get_reference_maps(al_mat)
GetReferenceMaps ==
    /\ pc = "reference_maps"
    /\ ref_maps' = get_reference_maps(al_mat_arg)
    /\ pc' = "textures"
    /\ UNCHANGED <<al_mat_arg, bl_mat, notBlenderVars>>

\* set_image_texture for every reference map: the slot's texture and the
\* channel it maps to; then the scale of the slots
SetImageTextures ==
    /\ pc = "textures"
    /\ LET slot(map_key) ==
               [image_path |-> ref_maps[map_key],
                use_map |-> map_key,
                uv_layer |-> IF map_key = "map_light" THEN "UVLightmap" ELSE "",
                scale_inverse_of |-> IF "uv_scale" \in DOMAIN al_mat_arg
                                     THEN <<al_mat_arg["uv_scale"]>> ELSE <<>>]
       IN bl_mat' = [bl_mat EXCEPT
                        !.texture_slots = [k \in DOMAIN ref_maps |-> slot(k)],
                        !.use_transparency = @ \/ "map_alpha" \in DOMAIN ref_maps]
    /\ pc' = "material_done"
    /\ UNCHANGED <<al_mat_arg, ref_maps, notBlenderVars>>

----------------------------------------------------------------------------
(* Specification of create_blender_material on one material *)

MaxKeys == 3

blender_keys ==
    <<"col_diff", "col_spec", "coef_spec", "coef_emit", "opacity", "uv_scale",
      "map_diff" \o map_suffix_source, "map_diff", "map_diff" \o map_suffix_preview,
      "map_spec" \o map_suffix_source, "map_spec", "map_spec" \o map_suffix_preview,
      "map_norm" \o map_suffix_source, "map_norm", "map_norm" \o map_suffix_preview,
      "map_alpha" \o map_suffix_source, "map_alpha", "map_alpha" \o map_suffix_preview,
      "map_light" \o map_suffix_source, "map_light", "map_light" \o map_suffix_preview>>

SourceKeys == {map_types[i] \o map_suffix_source : i \in DOMAIN map_types}
PreviewKeys == {map_types[i] \o map_suffix_preview : i \in DOMAIN map_types}

\* the values a field of the material is drawn from: file names with and
\* without the '.dds' ending (the names are shorter than the ending), the
\* empty string
MaterialValues(key) ==
    CASE key = "col_diff" -> {<<10, 20, 30>>, <<25, 25, 25>>}
      [] key = "col_spec" -> {<<40, 50, 60>>}
      [] key = "coef_spec" -> {3050}
      [] key = "coef_emit" -> {20}
      [] key = "opacity" -> {50, 100}
      [] key = "uv_scale" -> {<<2, 4>>}
      [] key \in SourceKeys -> {<<>>, <<"s">>, <<"s">> \o dds}
      [] key \in PreviewKeys -> {<<"p">>, <<"p">> \o dds}
      [] OTHER -> {<<"b">>, <<"b">> \o dds}

Put(d, key, value) == [k \in DOMAIN d \cup {key} |-> IF k = key THEN value ELSE d[k]]

\* the materials with at most n of the keys
RECURSIVE al_materials(_, _)
al_materials(keys, n) ==
    IF keys = <<>> \/ n = 0
    THEN {EmptyDict}
    ELSE al_materials(Tail(keys), n) \cup
         {Put(d, Head(keys), v) : d \in al_materials(Tail(keys), n - 1),
                                  v \in MaterialValues(Head(keys))}

InitMaterial ==
    /\ al_mat_arg \in al_materials(blender_keys, MaxKeys)
    /\ import_metadata \in BOOLEAN
    /\ bl_mat = NewMaterial
    /\ ref_maps = EmptyDict
    /\ pc = "create_blender_material"
    /\ data3d_objects = <<>>
    /\ import_materials = FALSE
    /\ al_hashed_materials = EmptyDict
    /\ material_hash_map = EmptyDict
    /\ ni = 1
    /\ ki = 1
    /\ mat_hash_map = EmptyDict
    /\ bl_materials = EmptyDict
    /\ prev = <<>>
    /\ matA = <<>>
    /\ matB = <<>>
    /\ hashA = NoHash
    /\ hashB = NoHash
    /\ import_hierarchy = FALSE
    /\ SceneInit
    /\ MeshIdle

NextMaterial ==
    \/ CreateBlenderMaterial
    \/ GetReferenceMaps
    \/ SetImageTextures

SpecMaterial == InitMaterial /\ [][NextMaterial]_vars

----------------------------------------------------------------------------
(* C22: the reference maps *)

Families == {"map_diff", "map_spec", "map_norm", "map_alpha", "map_light"}

\* the keys of a family in the order of preference: source, base, preview
Tiers(family) == <<family \o "_source", family, family \o "_preview">>

\* a file name that is not empty and does not end in '.dds'
Acceptable(name) ==
    /\ name # <<>>
    /\ \/ Len(name) < 4
       \/ <<name[Len(name) - 3], name[Len(name) - 2], name[Len(name) - 1],
            name[Len(name)]>> # <<".", "d", "d", "s">>

\* the tiers of a family that the material has with an acceptable value
AcceptableTiers(family) ==
    {i \in 1..3 : /\ Tiers(family)[i] \in DOMAIN al_mat_arg
                  /\ Acceptable(al_mat_arg[Tiers(family)[i]])}

ReferenceMapsTaken == pc \in {"textures", "material_done"}

\* C22: once get_reference_maps has returned, every family with an acceptable
\* value among its source, base and preview fields is in the result with the
\* first of them in that order, a family with none is not in the result, and
\* the result has no key that is not one of the five families.
C22_ReferenceMaps ==
    ReferenceMapsTaken =>
        /\ DOMAIN ref_maps \subseteq Families
        /\ \A family \in Families :
              LET tiers == AcceptableTiers(family)
                  first == CHOOSE i \in tiers : \A j \in tiers : i <= j
              IN /\ family \in DOMAIN ref_maps <=> tiers # {}
                 /\ tiers # {} => ref_maps[family] = al_mat_arg[Tiers(family)[first]]

\* a '.dds' source and a '.dds' base are passed over for the preview
C22_Witness ==
    /\ ReferenceMapsTaken
    /\ \E family \in Families :
          /\ DOMAIN al_mat_arg = Range(Tiers(family))
          /\ al_mat_arg[Tiers(family)[1]] = <<"s", ".", "d", "d", "s">>
          /\ al_mat_arg[Tiers(family)[2]] = <<"b", ".", "d", "d", "s">>
          /\ ref_maps = [k \in {family} |-> <<"p">>]

----------------------------------------------------------------------------
(* C23: the diffuse colour *)

MaterialDone == pc = "material_done"

\* C23: when create_blender_material has returned, the diffuse colour of the
\* host material is the diffuse-colour field of the material when it has one
\* and (0.85, 0.85, 0.85) when it has none, whatever its other fields are.
C23_DiffuseColour ==
    MaterialDone =>
        bl_mat.diffuse_color =
            IF "col_diff" \in DOMAIN al_mat_arg
            THEN al_mat_arg["col_diff"]
            ELSE <<85, 85, 85>>

====
